---- MODULE Spec2Model ----
(***************************************************************************)
(* A model of the TTD-DR research workflow (langgraph_ttd_dr): the graph   *)
(* of create_ttd_workflow, the nodes of nodes.py that it runs, the search  *)
(* tool of tools.py and the state helpers of state.py.                     *)
(*                                                                         *)
(* Scores are held in hundredths: 0.85 is 85, 0.7 is 70, 0.5 is 50.        *)
(***************************************************************************)
EXTENDS Integers, Sequences, FiniteSets, TLC

VARIABLES
    pc,                 \* the node the graph runs next ("END", "aborted" when the run is over)
    client,             \* state["client"]
    query,              \* state["query"]
    max_iterations,     \* state["max_iterations"]
    quality_threshold,  \* state["quality_threshold"]
    current_iteration,  \* state["current_iteration"]
    research_complete,  \* state["research_complete"]
    query_analysis,     \* state["query_analysis"]
    research_plan,      \* state["research_plan"]
    current_draft,      \* state["current_draft"]
    previous_drafts,    \* state["previous_drafts"]
    final_report,       \* state["final_report"]
    research_gaps,      \* state["research_gaps"]
    gap_analysis_text,  \* state["gap_analysis_text"]
    search_results,     \* state["search_results"]
    sources,            \* state["sources"]
    quality_score,      \* state["quality_score"]
    quality_scores,     \* state["quality_scores"]
    component_fitness,  \* state["component_fitness"]
    self_engines,       \* WebSearchTool.engines of state["search_tool"]
    cache,              \* WebSearchTool.cache of state["search_tool"]
    gap_meta,           \* gap_id / gap_section written into the result objects
    gap_idx,            \* WebSearchNode.process: position of its loop over the gaps
    all_search_results, \* WebSearchNode.process: its local all_search_results
    visits,             \* history: how often each node has completed
    quality_seen,       \* history: the overall scores the evaluations have given
    call_in,            \* a helper called on its own: its arguments
    call_out,           \* a helper called on its own: what it returned
    files               \* run_research: which files it has created in output_dir

state_vars == <<client, query, max_iterations, quality_threshold, current_iteration,
                research_complete, query_analysis, research_plan, current_draft,
                previous_drafts, final_report, research_gaps, gap_analysis_text, search_results,
                sources, quality_score, quality_scores, component_fitness>>
tool_vars == <<self_engines, cache, gap_meta>>
local_vars == <<gap_idx, all_search_results>>
call_vars == <<call_in, call_out>>
vars == <<pc, state_vars, tool_vars, local_vars, visits, quality_seen, call_vars, files>>

----------------------------------------------------------------------------
(* Bounds of the model *)

MaxIter == 3
MaxVisits == 3
MaxSources == 2
MaxCalls == 2

(* Program constants, in hundredths *)

InitialQuality == 0
DefaultScore == 50
ImprovementFloor == 70
SearchMaxResults == 5
DuckDuckGoScore == 50
NaverScore == 70

None == "None"

\* output_dir before run_research has written anything: which of its two
\* files exist
NoFiles == [report |-> FALSE, metadata |-> FALSE]

Nodes == {"clarify", "plan", "generate_draft", "analyze_gaps", "web_search",
          "enhance", "evaluate", "finalize"}

Min(a, b) == IF a <= b THEN a ELSE b

----------------------------------------------------------------------------
(* utils.py *)

\* A response of the text generator: a body, possibly wrapped with bracketed
\* reasoning blocks. clean_reasoning_tags removes the blocks and strips.
Response(bodies) == [tags : BOOLEAN, body : bodies]

clean_reasoning_tags(text) == text.body

\* A gap-analysis text, as far as parse_gap_analysis reads it: whether it holds
\* a [SPECIFIC_GAPS] block, and the entries of the block that gap_pattern
\* matches, in order, each with its six captured fields.
GapEntry(i, s, t, d, p, q) ==
    [id |-> i, section |-> s, gap_type |-> t, description |-> d, priority |-> p,
     search_query |-> q]

GapText(b, es) == [block |-> b, entries |-> es]

\* str.lower() on the priority labels the texts use
Lower(p) ==
    CASE p = "HIGH" -> "high"
      [] p = "Medium" -> "medium"
      [] p = "LOW" -> "low"
      [] OTHER -> p

parse_gap_analysis(text) ==
    IF ~text.block
    THEN <<>>
    ELSE [i \in 1..Len(text.entries) |->
            [id |-> text.entries[i].id,
             section |-> text.entries[i].section,
             gap_type |-> text.entries[i].gap_type,
             specific_need |-> text.entries[i].description,
             search_query |-> text.entries[i].search_query,
             priority |-> Lower(text.entries[i].priority),
             status |-> "pending"]]

\* no gap given back
create_fallback_gap_none(q, uuid8) == <<>>

\* the search query without its "comprehensive research " prefix
create_fallback_gap_bare(q, uuid8) ==
    <<[id |-> uuid8,
       section |-> "general",
       gap_type |-> "missing_information",
       specific_need |-> "Additional research needed for comprehensive coverage",
       search_query |-> q,
       priority |-> "medium",
       status |-> "pending"]>>

\* uuid8 stands for str(uuid.uuid4())[:8], drawn by the caller
create_fallback_gap(q, uuid8) ==
    <<[id |-> uuid8,
       section |-> "general",
       gap_type |-> "missing_information",
       specific_need |-> "Additional research needed for comprehensive coverage",
       search_query |-> "comprehensive research " \o q,
       priority |-> "medium",
       status |-> "pending"]>>

\* every gap given the fresh token as its id
ParseGaps_fresh_ids(response, q, uuid8) ==
    LET parsed == parse_gap_analysis(response)
    IN IF parsed = <<>> THEN create_fallback_gap(q, uuid8)
       ELSE [i \in 1..Len(parsed) |-> [parsed[i] EXCEPT !.id = uuid8]]

\* GapAnalyzerNode.process, "# Parse gaps": parse_gap_analysis, and the
\* fallback when it gives no gap. parse_gap_analysis raises only on a response
\* that is no string; the client returns strings, and the except branch gives
\* the same fallback.
\* the gaps of the pass added to the ones the state holds
ParseGaps_merging(response, q, uuid8) ==
    LET parsed == parse_gap_analysis(response)
    IN research_gaps \o (IF parsed = <<>> THEN create_fallback_gap(q, uuid8) ELSE parsed)

ParseGaps(response, q, uuid8) ==
    LET parsed == parse_gap_analysis(response)
    IN IF parsed = <<>> THEN create_fallback_gap(q, uuid8) ELSE parsed

\* validate_state, the checks of the two numbers of the configuration: the
\* issues it lists. Nothing in the package calls it.
validate_state(max_iter, threshold) ==
    (IF max_iter < 1 THEN <<"max_iterations must be positive integer">> ELSE <<>>)
    \o (IF ~(0 <= threshold /\ threshold <= 100)
        THEN <<"quality_threshold must be between 0 and 1">> ELSE <<>>)

----------------------------------------------------------------------------
(* tools.py: WebSearchTool *)

\* What one provider call does: it raises, or it returns a list of hits.
\* A hit is [url, score]; the tool turns each hit into a result object.
Outcome(r, hs) == [raises |-> r, hits |-> hs]
Hit(u, s) == [url |-> u, score |-> s]

\* self.engines of a tool built without arguments: the default pair, both
\* usable (self.tavily_client set)
engines == <<"tavily", "duckduckgo">>

RECURSIVE JoinEngines(_)
JoinEngines(es) ==
    IF Len(es) = 0 THEN ""
    ELSE IF Len(es) = 1 THEN es[1]
    ELSE es[1] \o "_" \o JoinEngines(Tail(es))

\* max_results left out of the key
CacheKey_no_max(es, q, max_results, engine) ==
    q \o "_" \o (IF engine \in {None, ""} THEN JoinEngines(es) ELSE engine)

\* f"{query}_{max_results}_{engine or '_'.join(self.engines)}"
CacheKey(es, q, max_results, engine) ==
    q \o "_" \o ToString(max_results) \o "_"
      \o (IF engine \in {None, ""} THEN JoinEngines(es) ELSE engine)

\* The result objects a provider call builds from its hits. Each object gets a
\* fresh uuid as "id"; here that is the cache key's query and the object's
\* place in all_results at the time it is appended.
RECURSIVE MakeResults(_, _, _, _)
MakeResults(hits, engine_name, q, base) ==
    IF hits = <<>> THEN <<>>
    ELSE <<[id |-> <<q, base + 1>>,
            url |-> Head(hits).url,
            source |-> engine_name,
            score |-> Head(hits).score]>>
         \o MakeResults(Tail(hits), engine_name, q, base + 1)

\* the engines of engines_to_use that a branch of the loop calls
KnownEngines == {"tavily", "duckduckgo", "naver"}

RECURSIVE Called(_)
Called(engines_to_use) ==
    IF engines_to_use = <<>> THEN <<>>
    ELSE (IF Head(engines_to_use) \in KnownEngines THEN <<Head(engines_to_use)>> ELSE <<>>)
         \o Called(Tail(engines_to_use))

\* the try around the whole loop: the first provider that raises ends it
RECURSIVE CollectResults_abort(_, _, _, _)
CollectResults_abort(engines_to_use, out, q, acc) ==
    IF engines_to_use = <<>> THEN acc
    ELSE LET engine_name == Head(engines_to_use)
             known == engine_name \in KnownEngines
         IN IF known /\ out[engine_name].raises
            THEN acc
            ELSE CollectResults_abort(
                    Tail(engines_to_use), out, q,
                    acc \o (IF known
                            THEN MakeResults(out[engine_name].hits, engine_name, q, Len(acc))
                            ELSE <<>>))

\* for engine_name in engines_to_use: try ... all_results.extend(results)
\*                                    except Exception: log
RECURSIVE CollectResults(_, _, _, _)
CollectResults(engines_to_use, out, q, acc) ==
    IF engines_to_use = <<>> THEN acc
    ELSE LET engine_name == Head(engines_to_use)
             known == engine_name \in KnownEngines
             got == IF ~known \/ out[engine_name].raises
                    THEN <<>>
                    ELSE MakeResults(out[engine_name].hits, engine_name, q, Len(acc))
         IN CollectResults(Tail(engines_to_use), out, q, acc \o got)

\* list.sort(key=score, reverse=True): stable, descending
RECURSIVE InsertByScore(_, _)
InsertByScore(sorted, x) ==
    IF sorted = <<>> THEN <<x>>
    ELSE IF Head(sorted).score >= x.score
         THEN <<Head(sorted)>> \o InsertByScore(Tail(sorted), x)
         ELSE <<x>> \o sorted

RECURSIVE SortByScore(_)
SortByScore(rs) ==
    IF rs = <<>> THEN <<>>
    ELSE InsertByScore(SortByScore(SubSeq(rs, 1, Len(rs) - 1)), rs[Len(rs)])

\* WebSearchTool.search on a tool whose self.engines is es and whose cache is
\* cch: [results |-> what the call returns, cache |-> the cache after it,
\* called |-> the providers it called, in order]. out gives each engine's
\* outcome, should it be called.
Search(es, cch, q, max_results, engine, out) ==
    LET cache_key == CacheKey(es, q, max_results, engine)
        engines_to_use == IF engine \in {None, ""} THEN es ELSE <<engine>>
        all_results == SortByScore(CollectResults(engines_to_use, out, q, <<>>))
    IN IF cache_key \in DOMAIN cch
       THEN [results |-> cch[cache_key], cache |-> cch, called |-> <<>>]
       ELSE [results |-> SubSeq(all_results, 1,
                                Min(Len(all_results), max_results * Len(engines_to_use))),
             cache |-> cch @@ (cache_key :> all_results),
             called |-> Called(engines_to_use)]

----------------------------------------------------------------------------
(* state.py *)

Urls(srcs) == {srcs[i].url : i \in 1..Len(srcs)}

RECURSIVE SelectNotIn(_, _)
SelectNotIn(new_sources, existing_urls) ==
    IF new_sources = <<>> THEN <<>>
    ELSE IF Head(new_sources).url \notin existing_urls
         THEN <<Head(new_sources)>> \o SelectNotIn(Tail(new_sources), existing_urls)
         ELSE SelectNotIn(Tail(new_sources), existing_urls)

\* a record with a known URL put in the place of the record held
update_state_with_source_metadata_replacing(srcs, new_sources) ==
    [i \in 1..Len(srcs) |->
        IF \E j \in 1..Len(new_sources) : new_sources[j].url = srcs[i].url
        THEN new_sources[CHOOSE j \in 1..Len(new_sources) : new_sources[j].url = srcs[i].url]
        ELSE srcs[i]]
    \o SelectNotIn(new_sources, Urls(srcs))

\* the "sources" of the state it returns
update_state_with_source_metadata(srcs, new_sources) ==
    srcs \o SelectNotIn(new_sources, Urls(srcs))

----------------------------------------------------------------------------
(* workflow.py: the conditional edges *)

\* the search taken whatever the gap list holds
should_search_gaps_always(gaps) == "web_search"

\* the condition inverted
should_search_gaps_inverted(gaps) ==
    IF Len(gaps) > 0 THEN "evaluate" ELSE "web_search"

should_search_gaps(gaps) ==
    IF Len(gaps) > 0 THEN "web_search" ELSE "evaluate"

\* the threshold compared with > instead of >=
should_continue_research_strict(iteration, max_iter, quality, threshold, ngaps) ==
    IF iteration >= max_iter THEN "finalize"
    ELSE IF quality > threshold THEN "finalize"
    ELSE IF ngaps = 0 /\ quality > ImprovementFloor THEN "finalize"
    ELSE "analyze_gaps"

\* the iteration bound compared with > instead of >=
should_continue_research_late(iteration, max_iter, quality, threshold, ngaps) ==
    IF iteration > max_iter THEN "finalize"
    ELSE IF quality >= threshold THEN "finalize"
    ELSE IF ngaps = 0 /\ quality > ImprovementFloor THEN "finalize"
    ELSE "analyze_gaps"

\* the iteration bound left out
should_continue_research_unbounded(iteration, max_iter, quality, threshold, ngaps) ==
    IF quality >= threshold THEN "finalize"
    ELSE IF ngaps = 0 /\ quality > ImprovementFloor THEN "finalize"
    ELSE "analyze_gaps"

\* the gap rule compared with >= instead of >
should_continue_research_floor(iteration, max_iter, quality, threshold, ngaps) ==
    IF iteration >= max_iter THEN "finalize"
    ELSE IF quality >= threshold THEN "finalize"
    ELSE IF ngaps = 0 /\ quality >= ImprovementFloor THEN "finalize"
    ELSE "analyze_gaps"

\* the loop led back to the draft instead of the gap analysis
should_continue_research_redraft(iteration, max_iter, quality, threshold, ngaps) ==
    IF iteration >= max_iter THEN "finalize"
    ELSE IF quality >= threshold THEN "finalize"
    ELSE IF ngaps = 0 /\ quality > ImprovementFloor THEN "finalize"
    ELSE "generate_draft"

\* the decision consulting the fitness scores of the state
should_continue_research_fitness(iteration, max_iter, quality, threshold, ngaps) ==
    IF iteration >= max_iter THEN "finalize"
    ELSE IF quality >= threshold THEN "finalize"
    ELSE IF ngaps = 0 /\ quality > ImprovementFloor THEN "finalize"
    ELSE IF component_fitness.synthesis_quality < ImprovementFloor THEN "finalize"
    ELSE "analyze_gaps"

should_continue_research(iteration, max_iter, quality, threshold, ngaps) ==
    IF iteration >= max_iter THEN "finalize"
    ELSE IF quality >= threshold THEN "finalize"
    ELSE IF ngaps = 0 /\ quality > ImprovementFloor THEN "finalize"
    ELSE "analyze_gaps"

----------------------------------------------------------------------------
(* nodes.py: QualityEvaluatorNode._parse_quality_scores *)

\* An evaluator text, as far as the parser reads it: its lines that hold a
\* ':', each as [key, float, value]: the stripped text before the first ':',
\* whether float() accepts the rest, and the number it gives.
Line(k, f, v) == [key |-> k, float |-> f, value |-> v]

RECURSIVE ParseLines(_, _)
ParseLines(lines, scores) ==
    IF lines = <<>> THEN scores
    ELSE LET l == Head(lines)
             v == IF l.float THEN l.value ELSE DefaultScore
             rest == [k \in DOMAIN scores \ {l.key} |-> scores[k]]
         IN ParseLines(Tail(lines), (l.key :> v) @@ rest)

_parse_quality_scores(response) == ParseLines(response, <<>>)

\* the labels the evaluator is asked to answer with
QualityLabels ==
    {"COMPREHENSIVENESS", "ACCURACY", "DEPTH", "STRUCTURE", "CURRENCY", "OVERALL_QUALITY"}

\* dict.get(key, default)
Get(d, k, default) == IF k \in DOMAIN d THEN d[k] ELSE default

----------------------------------------------------------------------------
(* utils.py: calculate_component_fitness *)

\* the base scores: 0.8 for the two counted ones, 0.7 for the quality ones
FitnessBase == 80
FitnessFallback == 70

\* Scores are hundredths. The weighted sum 0.4 x structure + 0.6 x accuracy is
\* exact in hundredths for scores that are multiples of 0.05, which the inputs are.
calculate_component_fitness(results, gaps_addressed, scores) ==
    LET overall_quality == Get(scores, "overall_quality", FitnessFallback)
        has_quality == DOMAIN scores # {}
    IN [search_strategy |->
            IF results # <<>> THEN Min(100, FitnessBase + Len(results) * 5)
            ELSE FitnessBase,
        synthesis_quality |-> IF has_quality THEN overall_quality ELSE FitnessFallback,
        integration_ability |->
            IF has_quality
            THEN (Get(scores, "structure", FitnessFallback) * 40
                  + Get(scores, "accuracy", FitnessFallback) * 60) \div 100
            ELSE FitnessFallback,
        gap_identification |->
            IF gaps_addressed # <<>> THEN Min(100, FitnessBase + Len(gaps_addressed) * 10)
            ELSE FitnessBase,
        enhancement_effectiveness |->
            IF has_quality THEN overall_quality ELSE FitnessFallback]

----------------------------------------------------------------------------
(* The inputs of a run *)

Queries == {"Q1"}
Thresholds == {85}

ClarifyResponses == Response({"analysis"})
PlanResponses == Response({"plan"})
DraftResponses == Response({"dA"})
EnhanceResponses == Response({"dA", "dB"})
ReportResponses == Response({"report"})

Uuids == {"f1", "f2"}

G1 == GapEntry("G1", "intro", "missing_info", "need data", "HIGH", "q1")
G1NoQuery == GapEntry("G1", "intro", "missing_info", "need data", "HIGH", "")
G2 == GapEntry("G2", "methods", "outdated", "need update", "low", "q1")

GapTexts == {GapText(FALSE, <<>>), GapText(TRUE, <<>>), GapText(TRUE, <<G1>>),
             GapText(TRUE, <<G1NoQuery>>), GapText(TRUE, <<G1, G2>>)}

EvalTexts == {<<>>,
              <<Line("OVERALL_QUALITY", TRUE, 40)>>,
              <<Line("OVERALL_QUALITY", TRUE, 85)>>,
              <<Line("OVERALL_QUALITY", TRUE, 90)>>,
              <<Line("OVERALL_QUALITY", TRUE, 150)>>}

TavilyOutcomes == {Outcome(TRUE, <<>>), Outcome(FALSE, <<>>),
                   Outcome(FALSE, <<Hit("u1", 90)>>),
                   Outcome(FALSE, <<Hit("u2", 30)>>)}
DuckDuckGoOutcomes == {Outcome(FALSE, <<>>),
                       Outcome(FALSE, <<Hit("u1", DuckDuckGoScore)>>)}

ProviderOutcomes ==
    {("tavily" :> t) @@ ("duckduckgo" :> d) : t \in TavilyOutcomes, d \in DuckDuckGoOutcomes}

----------------------------------------------------------------------------
(* state.py: create_initial_state *)

InitialFitness ==
    [search_strategy |-> 100, synthesis_quality |-> 100, integration_ability |-> 100,
     gap_identification |-> 100, enhancement_effectiveness |-> 100]

\* "gap_analysis_text": "" is the text without a block and without entries
create_initial_state(q, max_iter, threshold, cl) ==
    /\ query = q
    /\ max_iterations = max_iter
    /\ quality_threshold = threshold
    /\ client = cl
    /\ current_iteration = 0
    /\ research_complete = FALSE
    /\ query_analysis = ""
    /\ research_plan = ""
    /\ current_draft = ""
    /\ previous_drafts = <<>>
    /\ final_report = ""
    /\ research_gaps = <<>>
    /\ gap_analysis_text = GapText(FALSE, <<>>)
    /\ search_results = <<>>
    /\ sources = <<>>
    /\ quality_score = InitialQuality
    /\ quality_scores = <<>>
    /\ component_fitness = InitialFitness

\* A run of the workflow on a fresh state that carries a client and a tool
Init ==
    /\ \E q \in Queries, n \in 1..MaxIter, t \in Thresholds :
          create_initial_state(q, n, t, "client")
    /\ pc = "clarify"
    /\ self_engines = engines
    /\ cache = <<>>
    /\ gap_meta = <<>>
    /\ gap_idx = 0
    /\ all_search_results = <<>>
    /\ visits = [n \in Nodes |-> 0]
    /\ quality_seen = {}
    /\ call_in = None
    /\ call_out = None
    /\ files = NoFiles

Visit(node) == visits' = [visits EXCEPT ![node] = @ + 1]

----------------------------------------------------------------------------
(* nodes.py: the nodes, each with the edge that leaves it *)

ClarificationNode ==
    /\ pc = "clarify"
    /\ client # None
    /\ \E response \in ClarifyResponses :
          query_analysis' = clean_reasoning_tags(response)
    /\ pc' = "plan"
    /\ Visit("clarify")
    /\ UNCHANGED <<client, query, max_iterations, quality_threshold, current_iteration,
                   research_complete, research_plan, current_draft, previous_drafts,
                   final_report, research_gaps, gap_analysis_text, search_results, sources, quality_score,
                   quality_scores, component_fitness>>
    /\ UNCHANGED <<tool_vars, local_vars, quality_seen, call_vars, files>>

PlanningNode ==
    /\ pc = "plan"
    /\ client # None
    /\ \E response \in PlanResponses :
          research_plan' = clean_reasoning_tags(response)
    /\ pc' = "generate_draft"
    /\ Visit("plan")
    /\ UNCHANGED <<client, query, max_iterations, quality_threshold, current_iteration,
                   research_complete, query_analysis, current_draft, previous_drafts,
                   final_report, research_gaps, gap_analysis_text, search_results, sources, quality_score,
                   quality_scores, component_fitness>>
    /\ UNCHANGED <<tool_vars, local_vars, quality_seen, call_vars, files>>

DraftGenerationNode ==
    /\ pc = "generate_draft"
    /\ client # None
    /\ \E response \in DraftResponses :
          current_draft' = clean_reasoning_tags(response)
    /\ current_iteration' = 1
    /\ pc' = "analyze_gaps"
    /\ Visit("generate_draft")
    /\ UNCHANGED <<client, query, max_iterations, quality_threshold,
                   research_complete, query_analysis, research_plan, previous_drafts,
                   final_report, research_gaps, gap_analysis_text, search_results, sources, quality_score,
                   quality_scores, component_fitness>>
    /\ UNCHANGED <<tool_vars, local_vars, quality_seen, call_vars, files>>

GapAnalyzerNode ==
    /\ pc = "analyze_gaps"
    /\ client # None
    /\ visits["analyze_gaps"] < MaxVisits
    /\ \E response \in GapTexts, uuid8 \in Uuids :
          LET gaps == ParseGaps(response, query, uuid8)
          IN /\ research_gaps' = gaps
             /\ gap_analysis_text' = response
             /\ pc' = should_search_gaps(gaps)
    /\ Visit("analyze_gaps")
    /\ UNCHANGED <<client, query, max_iterations, quality_threshold, current_iteration,
                   research_complete, query_analysis, research_plan, current_draft,
                   previous_drafts, final_report, search_results, sources, quality_score,
                   quality_scores, component_fitness>>
    /\ UNCHANGED <<tool_vars, local_vars, quality_seen, call_vars, files>>

\* WebSearchNode.process up to its loop: "if not state['research_gaps']: return state"
WebSearchStart ==
    /\ pc = "web_search"
    /\ gap_idx = 0
    /\ IF research_gaps = <<>>
       THEN /\ pc' = "enhance"
            /\ Visit("web_search")
            /\ UNCHANGED local_vars
       ELSE /\ gap_idx' = 1
            /\ all_search_results' = <<>>
            /\ UNCHANGED <<pc, visits>>
    /\ UNCHANGED <<state_vars, tool_vars, quality_seen, call_vars, files>>

\* for result in search_results: result["gap_id"] = ...; result["gap_section"] = ...
\* The results are the tool's own objects, so the write shows wherever they are held.
TagResults(meta, results, gap) ==
    LET ids == {results[i].id : i \in 1..Len(results)}
    IN [x \in ids |-> [gap_id |-> gap.id, gap_section |-> gap.section]]
       @@ [x \in DOMAIN meta \ ids |-> meta[x]]

\* One turn of the loop "for gap in state['research_gaps']", the providers'
\* outcomes drawn from outcomes
WebSearchGapWith(outcomes) ==
    /\ pc = "web_search"
    /\ gap_idx \in 1..Len(research_gaps)
    /\ LET gap == research_gaps[gap_idx]
       IN IF gap.search_query = ""
          THEN UNCHANGED <<all_search_results, tool_vars>>
          ELSE \E out \in outcomes :
                  LET r == Search(self_engines, cache, gap.search_query,
                                  SearchMaxResults, None, out)
                  IN /\ cache' = r.cache
                     /\ UNCHANGED self_engines
                     /\ gap_meta' = TagResults(gap_meta, r.results, gap)
                     /\ all_search_results' = all_search_results \o r.results
    /\ gap_idx' = gap_idx + 1
    /\ UNCHANGED <<pc, state_vars, visits, quality_seen, call_vars, files>>

WebSearchGap == WebSearchGapWith(ProviderOutcomes)

\* WebSearchNode.process after its loop
WebSearchFinish ==
    /\ pc = "web_search"
    /\ gap_idx = Len(research_gaps) + 1
    /\ search_results' = all_search_results
    /\ gap_idx' = 0
    /\ all_search_results' = <<>>
    /\ pc' = "enhance"
    /\ Visit("web_search")
    /\ UNCHANGED <<client, query, max_iterations, quality_threshold, current_iteration,
                   research_complete, query_analysis, research_plan, current_draft,
                   previous_drafts, final_report, research_gaps, gap_analysis_text, sources, quality_score,
                   quality_scores, component_fitness>>
    /\ UNCHANGED <<tool_vars, quality_seen, call_vars, files>>

\* the counter advanced without the draft being pushed
EnhanceUpdate_no_push(response) ==
    /\ current_draft' = clean_reasoning_tags(response)
    /\ UNCHANGED previous_drafts
    /\ sources' = sources \o search_results
    /\ current_iteration' = current_iteration + 1

\* the history and the sources started afresh at each enhancement
EnhanceUpdate_replacing(response) ==
    /\ current_draft' = clean_reasoning_tags(response)
    /\ previous_drafts' = <<current_draft>>
    /\ sources' = search_results
    /\ current_iteration' = current_iteration + 1

\* EnhancementNode.process when it has search results
EnhanceUpdate(response) ==
    /\ current_draft' = clean_reasoning_tags(response)
    /\ previous_drafts' = Append(previous_drafts, current_draft)
    /\ sources' = sources \o search_results
    /\ current_iteration' = current_iteration + 1

EnhancementNode ==
    /\ pc = "enhance"
    /\ IF search_results = <<>>
       THEN UNCHANGED <<current_draft, previous_drafts, sources, current_iteration>>
       ELSE /\ client # None
            /\ \E response \in EnhanceResponses : EnhanceUpdate(response)
    /\ pc' = "evaluate"
    /\ Visit("enhance")
    /\ UNCHANGED <<client, query, max_iterations, quality_threshold,
                   research_complete, query_analysis, research_plan,
                   final_report, research_gaps, gap_analysis_text, search_results, quality_score,
                   quality_scores, component_fitness>>
    /\ UNCHANGED <<tool_vars, local_vars, quality_seen, call_vars, files>>

QualityEvaluatorNode ==
    /\ pc = "evaluate"
    /\ client # None
    /\ \E response \in EvalTexts :
          LET scores == _parse_quality_scores(response)
              overall_quality == Get(scores, "OVERALL_QUALITY", DefaultScore)
          IN /\ quality_score' = overall_quality
             /\ quality_seen' = quality_seen \cup {overall_quality}
             /\ quality_scores' = scores
             /\ pc' = should_continue_research(current_iteration, max_iterations,
                                               overall_quality, quality_threshold,
                                               Len(research_gaps))
    /\ Visit("evaluate")
    /\ UNCHANGED <<client, query, max_iterations, quality_threshold, current_iteration,
                   research_complete, query_analysis, research_plan, current_draft,
                   previous_drafts, final_report, research_gaps, gap_analysis_text, search_results, sources,
                   component_fitness>>
    /\ UNCHANGED <<tool_vars, local_vars, call_vars, files>>

\* the finalize node wired back into the loop
FinalizeEdge_loop == "evaluate"

\* workflow.add_edge("finalize", END)
FinalizeEdge == "END"

FinalReportNode ==
    /\ pc = "finalize"
    /\ client # None
    /\ \E response \in ReportResponses :
          final_report' = clean_reasoning_tags(response)
    /\ research_complete' = TRUE
    /\ pc' = FinalizeEdge
    /\ Visit("finalize")
    /\ UNCHANGED <<client, query, max_iterations, quality_threshold, current_iteration,
                   query_analysis, research_plan, current_draft,
                   previous_drafts, research_gaps, gap_analysis_text, search_results, sources,
                   quality_score, quality_scores, component_fitness>>
    /\ UNCHANGED <<tool_vars, local_vars, quality_seen, call_vars, files>>

\* "response = await state['client'].generate(...)" raises: the node has written
\* nothing yet, the exception leaves the graph and run() re-raises it.
CallsGenerate ==
    \/ pc \in {"clarify", "plan", "generate_draft", "analyze_gaps", "evaluate", "finalize"}
    \/ pc = "enhance" /\ search_results # <<>>

\* the error absorbed by the node, the run sent on to its report
GenerationFails_absorbed ==
    /\ CallsGenerate
    /\ pc' = "finalize"
    /\ UNCHANGED <<state_vars, tool_vars, local_vars, visits, quality_seen, call_vars, files>>

\* the error raised after the node has pushed the draft it was about to replace
GenerationFails_half_written ==
    /\ CallsGenerate
    /\ pc' = "aborted"
    /\ previous_drafts' = Append(previous_drafts, current_draft)
    /\ UNCHANGED <<client, query, max_iterations, quality_threshold, current_iteration,
                   research_complete, query_analysis, research_plan, current_draft,
                   final_report, research_gaps, gap_analysis_text, search_results, sources,
                   quality_score, quality_scores, component_fitness>>
    /\ UNCHANGED <<tool_vars, local_vars, visits, quality_seen, call_vars, files>>

GenerationFails ==
    /\ CallsGenerate
    /\ pc' = "aborted"
    /\ UNCHANGED <<state_vars, tool_vars, local_vars, visits, quality_seen, call_vars, files>>

Next ==
    \/ ClarificationNode
    \/ PlanningNode
    \/ DraftGenerationNode
    \/ GapAnalyzerNode
    \/ WebSearchStart
    \/ WebSearchGap
    \/ WebSearchFinish
    \/ EnhancementNode
    \/ QualityEvaluatorNode
    \/ FinalReportNode
    \/ GenerationFails

Spec == Init /\ [][Next]_vars

----------------------------------------------------------------------------
(* The workflow when every failure is one the nodes absorb: the text         *)
(* generator always answers, and every provider call raises or finds         *)
(* nothing. LangGraph runs the node an edge leads to, so a run that can      *)
(* take a step takes one.                                                    *)

FailingOutcomes ==
    {out \in ProviderOutcomes :
        \A e \in DOMAIN out : out[e].raises \/ out[e].hits = <<>>}

WebSearchGapFails == WebSearchGapWith(FailingOutcomes)

\* The history counters are dropped when AnalyzeGaps reaches its bound, so
\* that the bound on the counters does not end a run the program would go on
\* with. The program's state is left as it is.
ForgetHistory ==
    /\ pc = "analyze_gaps"
    /\ visits["analyze_gaps"] = MaxVisits
    /\ visits' = [n \in Nodes |-> 0]
    /\ quality_seen' = {}
    /\ UNCHANGED <<pc, state_vars, tool_vars, local_vars, call_vars, files>>

NextAbsorbed ==
    \/ ClarificationNode
    \/ PlanningNode
    \/ DraftGenerationNode
    \/ GapAnalyzerNode
    \/ WebSearchStart
    \/ WebSearchGapFails
    \/ WebSearchFinish
    \/ EnhancementNode
    \/ QualityEvaluatorNode
    \/ FinalReportNode
    \/ ForgetHistory

SpecAbsorbed == Init /\ [][NextAbsorbed]_vars /\ WF_vars(NextAbsorbed)

----------------------------------------------------------------------------
(* The workflow run on whatever configuration the caller hands over:         *)
(* create_initial_state stores max_iterations and quality_threshold as given. *)

ConfigIterations == {-1, 0, 1}
ConfigThresholds == {-10, 85, 150}

InitAnyConfig ==
    /\ \E q \in Queries, n \in ConfigIterations, t \in ConfigThresholds :
          create_initial_state(q, n, t, "client")
    /\ pc = "clarify"
    /\ self_engines = engines
    /\ cache = <<>>
    /\ gap_meta = <<>>
    /\ gap_idx = 0
    /\ all_search_results = <<>>
    /\ visits = [n \in Nodes |-> 0]
    /\ quality_seen = {}
    /\ call_in = None
    /\ call_out = None
    /\ files = NoFiles

SpecAnyConfig == InitAnyConfig /\ [][Next]_vars

----------------------------------------------------------------------------
(* run_kimi_research.py: run_research, around one run of the workflow.       *)
(* call_in holds its arguments, call_out the result it returns.              *)

InitRun ==
    /\ create_initial_state("Q1", 1, 85, "client")
    /\ pc = "clarify"
    /\ self_engines = engines
    /\ cache = <<>>
    /\ gap_meta = <<>>
    /\ gap_idx = 0
    /\ all_search_results = <<>>
    /\ visits = [n \in Nodes |-> 0]
    /\ quality_seen = {}
    /\ call_in \in [fn : {"run_research"}, save_to_file : BOOLEAN]
    /\ call_out = None
    /\ files = NoFiles

\* TTDResearcher._process_results
_process_results ==
    [final_report |-> final_report,
     sources |-> sources,
     quality_score |-> quality_score,
     iterations |-> current_iteration,
     gaps_identified |-> Len(research_gaps)]

\* "result = await researcher.run()" raises: except, log, raise
RunRaises ==
    /\ pc = "aborted"
    /\ pc' = "raised"
    /\ UNCHANGED <<state_vars, tool_vars, local_vars, visits, quality_seen, call_vars, files>>

\* researcher.run() returns; "if save_to_file:", else "return result"
RunReturns ==
    /\ pc = "END"
    /\ IF call_in.save_to_file
       THEN pc' = "mkdir" /\ UNCHANGED call_out
       ELSE pc' = "returned" /\ call_out' = _process_results
    /\ UNCHANGED <<state_vars, tool_vars, local_vars, visits, quality_seen, call_in, files>>

\* output_path.mkdir(exist_ok=True)
MakeOutputDir ==
    /\ pc = "mkdir"
    /\ pc' = "write_report"
    /\ UNCHANGED <<state_vars, tool_vars, local_vars, visits, quality_seen, call_vars, files>>

\* with open(report_file, 'w') as f: f.write(result["final_report"])
WriteReport ==
    /\ pc = "write_report"
    /\ files' = [files EXCEPT !.report = TRUE]
    /\ pc' = "write_metadata"
    /\ UNCHANGED <<state_vars, tool_vars, local_vars, visits, quality_seen, call_vars>>

\* with open(metadata_file, 'w') as f: json.dump(metadata, f, ...); return result
WriteMetadata ==
    /\ pc = "write_metadata"
    /\ files' = [files EXCEPT !.metadata = TRUE]
    /\ call_out' = _process_results
    /\ pc' = "returned"
    /\ UNCHANGED <<state_vars, tool_vars, local_vars, visits, quality_seen, call_in>>

\* mkdir, open or write raises OSError (no permission, no space, no parent
\* directory): except, log, raise. Nothing that was created is removed.
SaveFails ==
    /\ pc \in {"mkdir", "write_report", "write_metadata"}
    /\ pc' = "raised"
    /\ UNCHANGED <<state_vars, tool_vars, local_vars, visits, quality_seen, call_vars, files>>

NextRun ==
    \/ Next
    \/ RunRaises
    \/ RunReturns
    \/ MakeOutputDir
    \/ SaveFails
    \/ WriteReport
    \/ WriteMetadata

SpecRun == InitRun /\ [][NextRun]_vars

-----------------------------------------------------------------------------
(* TTDResearcher as shipped: the constructor builds a client and a search   *)
(* tool and keeps them on the researcher; run() builds the state from the   *)
(* query, the context, the two limits and the constructor's extra keywords, *)
(* and passes neither self.client nor self.search_tool.                     *)

ClientTypes == {"kimi", "openai", "azure"}

InterfaceThresholds == {70, 85, 95}

\* TTDResearcher.__init__: the researcher's own fields
Researchers ==
    [fn : {"TTDResearcher.run"}, query : {"Q1", "Q2"}, client_type : ClientTypes,
     max_iterations : 1..MaxIter, quality_threshold : InterfaceThresholds,
     client : {"client"}, search_tool : {"tool"}]

\* TTDResearcher.run down to "workflow = create_ttd_workflow()": client and
\* search_tool take create_initial_state's defaults
InitInterface ==
    /\ call_in \in Researchers
    /\ create_initial_state(call_in.query, call_in.max_iterations,
                            call_in.quality_threshold, None)
    /\ call_out = [search_tool |-> None]
    /\ pc = "ainvoke"
    /\ self_engines = engines
    /\ cache = <<>>
    /\ gap_meta = <<>>
    /\ gap_idx = 0
    /\ all_search_results = <<>>
    /\ visits = [n \in Nodes |-> 0]
    /\ quality_seen = {}
    /\ files = NoFiles

\* "final_state = await workflow.ainvoke(initial_state)" on the graph that
\* create_ttd_workflow returns without compiling it: the call either is not
\* there to make, or starts the graph at its entry point
WorkflowAinvoke ==
    /\ pc = "ainvoke"
    /\ pc' \in {"aborted", "clarify"}
    /\ UNCHANGED <<state_vars, tool_vars, local_vars, visits, quality_seen, call_vars, files>>

\* with no client in the state, the first node's state["client"].generate is an
\* attribute error on None: of the node actions only GenerationFails can step
NextInterface ==
    \/ WorkflowAinvoke
    \/ GenerationFails
    \/ RunRaises

SpecInterface == InitInterface /\ [][NextInterface]_vars

----------------------------------------------------------------------------
(* A run asked for a quality above what most evaluations give: the threshold *)
(* lies between the evaluator's 0.90 and its 1.50.                           *)

HighThreshold == 95

InitHighThreshold ==
    /\ create_initial_state("Q1", 2, HighThreshold, "client")
    /\ pc = "clarify"
    /\ self_engines = engines
    /\ cache = <<>>
    /\ gap_meta = <<>>
    /\ gap_idx = 0
    /\ all_search_results = <<>>
    /\ visits = [n \in Nodes |-> 0]
    /\ quality_seen = {}
    /\ call_in = None
    /\ call_out = None
    /\ files = NoFiles

SpecHighThreshold == InitHighThreshold /\ [][Next]_vars

----------------------------------------------------------------------------
(* A run whose fitness scores are replaced at some point by other values. *)
(* call_out keeps the phases that could follow before the replacement.    *)

Phases == Nodes \cup {"END", "aborted"}

\* the overall scores an evaluation can store
QualityValues ==
    {InitialQuality, DefaultScore}
    \cup UNION {{t[i].value : i \in DOMAIN t} : t \in EvalTexts}

\* the phases a step of the workflow can lead to from the current state
PhasesNext == {p \in Phases : ENABLED (Next /\ pc' = p)}

\* what a step of the workflow can lead to from the current state: the phase,
\* and each value the routing functions read
RoutingNext ==
    [phase |-> PhasesNext,
     current_iteration |->
         {i \in 0..(MaxIter + 1) : ENABLED (Next /\ current_iteration' = i)},
     quality_score |-> {v \in QualityValues : ENABLED (Next /\ quality_score' = v)},
     research_gaps |-> {n \in 0..2 : ENABLED (Next /\ Len(research_gaps') = n)}]

OtherFitness ==
    {[search_strategy |-> 0, synthesis_quality |-> 0, integration_ability |-> 0,
      gap_identification |-> 0, enhancement_effectiveness |-> 0],
     [search_strategy |-> 80, synthesis_quality |-> 70, integration_ability |-> 70,
      gap_identification |-> 80, enhancement_effectiveness |-> 70]}

InitFitness ==
    /\ create_initial_state("Q1", 2, 85, "client")
    /\ pc = "clarify"
    /\ self_engines = engines
    /\ cache = <<>>
    /\ gap_meta = <<>>
    /\ gap_idx = 0
    /\ all_search_results = <<>>
    /\ visits = [n \in Nodes |-> 0]
    /\ quality_seen = {}
    /\ call_in = [fn |-> "run"]
    /\ call_out = [phase |-> {}, current_iteration |-> {}, quality_score |-> {},
                   research_gaps |-> {}]
    /\ files = NoFiles

\* between two phases: not inside the loop of WebSearchNode.process
ReplaceFitness ==
    /\ call_in.fn = "run"
    /\ gap_idx = 0
    /\ \E fitness \in OtherFitness :
          component_fitness' = fitness
    /\ call_in' = [fn |-> "replaced"]
    /\ call_out' = RoutingNext
    /\ UNCHANGED <<client, query, max_iterations, quality_threshold, current_iteration,
                   research_complete, query_analysis, research_plan, current_draft,
                   previous_drafts, final_report, research_gaps, gap_analysis_text,
                   search_results, sources, quality_score, quality_scores>>
    /\ UNCHANGED <<pc, tool_vars, local_vars, visits, quality_seen, files>>

NextFitness ==
    \/ call_in.fn = "run" /\ Next
    \/ ReplaceFitness

SpecFitness == InitFitness /\ [][NextFitness]_vars

----------------------------------------------------------------------------
(* The helpers called on their own, each on inputs drawn from bounded sets *)

SourceRecords == [url : {"u1", "u2", "u3"}, title : {"t1", "t2"}]

RECURSIVE SeqsUpTo(_, _)
SeqsUpTo(S, n) ==
    IF n = 0 THEN {<<>>}
    ELSE LET shorter == SeqsUpTo(S, n - 1)
         IN shorter \cup {Append(q, x) : q \in {r \in shorter : Len(r) = n - 1}, x \in S}

ShouldContinueInputs ==
    [fn : {"should_continue_research"},
     iteration : 0..(MaxIter + 1),
     max_iterations : 1..MaxIter,
     quality : {0, 40, 50, 70, 71, 85, 90, 100, 150},
     threshold : {0, 50, 70, 85, 100},
     ngaps : 0..2]

UpdateSourcesInputs ==
    [fn : {"update_state_with_source_metadata"},
     sources : SeqsUpTo(SourceRecords, MaxSources),
     new_sources : SeqsUpTo(SourceRecords, MaxSources)]

\* a text whose block names the same Gap ID in two entries
G1Again == GapEntry("G1", "methods", "outdated", "need update", "low", "q2")

RepeatedIdTexts == {GapText(TRUE, <<G1, G1Again>>), GapText(TRUE, <<G1, G2, G1Again>>)}

ParseGapsInputs ==
    [fn : {"parse_gaps"}, text : GapTexts \cup RepeatedIdTexts, query : Queries]

\* lines of an evaluator text: a score, a label without a number, a remark
QualityLines ==
    {Line("OVERALL_QUALITY", TRUE, 90), Line("ACCURACY", FALSE, 0),
     Line("DEPTH", TRUE, 60), Line("Note", TRUE, 30)}

ParseQualityInputs ==
    [fn : {"_parse_quality_scores"}, response : SeqsUpTo(QualityLines, 2)]

\* quality dicts: none, lower-case keys as the estimator reads them, an overall
\* score above 1, and the upper-case keys that _parse_quality_scores produces
FitnessQualities ==
    {<<>>,
     ("overall_quality" :> 90),
     ("overall_quality" :> 90) @@ ("structure" :> 50) @@ ("accuracy" :> 100),
     ("overall_quality" :> 150) @@ ("structure" :> 100) @@ ("accuracy" :> 100),
     ("OVERALL_QUALITY" :> 90) @@ ("STRUCTURE" :> 50)}

FitnessInputs ==
    [fn : {"calculate_component_fitness"},
     search_results : {[i \in 1..n |-> "r"] : n \in 0..5},
     gaps_addressed : {[i \in 1..n |-> "g"] : n \in 0..3},
     quality_scores : FitnessQualities]

\* search called once on a tool just built: WebSearchTool(engines).search(...)
NaverOutcomes == {Outcome(FALSE, <<>>), Outcome(FALSE, <<Hit("n1", NaverScore)>>)}

ThreeOutcomes ==
    {("tavily" :> t) @@ ("duckduckgo" :> d) @@ ("naver" :> n) :
        t \in {Outcome(TRUE, <<>>), Outcome(FALSE, <<>>),
               Outcome(FALSE, <<Hit("t1", 90), Hit("t2", DuckDuckGoScore)>>)},
        d \in {Outcome(FALSE, <<>>), Outcome(FALSE, <<Hit("d1", DuckDuckGoScore)>>)},
        n \in NaverOutcomes}

\* two lists of five records, two of the URLs in both
FiveTavily ==
    Outcome(FALSE, <<Hit("a1", 90), Hit("a2", 80), Hit("a3", DuckDuckGoScore),
                     Hit("a4", 40), Hit("a5", 30)>>)

FiveDuckDuckGo(shared) ==
    Outcome(FALSE, [i \in 1..5 |->
                      Hit(IF i <= 2 THEN shared[i] ELSE <<"b3", "b4", "b5">>[i - 2],
                          DuckDuckGoScore)])

FiveFiveOutcomes ==
    {("tavily" :> FiveTavily) @@ ("duckduckgo" :> FiveDuckDuckGo(shared))
                              @@ ("naver" :> Outcome(FALSE, <<>>)) :
        shared \in {<<"a1", "a2">>, <<"a5", "a3">>, <<"a2", "a4">>}}

SearchInputs ==
    [fn : {"search"},
     engines : {engines, <<"duckduckgo", "tavily", "naver">>},
     query : {"q1"},
     max_results : {2},
     engine : {None},
     out : ThreeOutcomes]
    \cup
    [fn : {"search"},
     engines : {engines},
     query : {"q1"},
     max_results : {SearchMaxResults},
     engine : {None},
     out : FiveFiveOutcomes]

InitCalls ==
    /\ create_initial_state("Q1", 1, 85, "client")
    /\ pc = "call"
    /\ self_engines = engines
    /\ cache = <<>>
    /\ gap_meta = <<>>
    /\ gap_idx = 0
    /\ all_search_results = <<>>
    /\ visits = [n \in Nodes |-> 0]
    /\ quality_seen = {}
    /\ call_in \in ShouldContinueInputs \cup UpdateSourcesInputs \cup ParseGapsInputs
                    \cup SearchInputs \cup ParseQualityInputs \cup FitnessInputs
    /\ call_out = None
    /\ files = NoFiles

Returns(value) ==
    /\ call_out' = value
    /\ pc' = "returned"
    /\ UNCHANGED <<state_vars, tool_vars, local_vars, visits, quality_seen, call_in, files>>

CallShouldContinueResearch ==
    /\ pc = "call"
    /\ call_in.fn = "should_continue_research"
    /\ Returns(should_continue_research(call_in.iteration, call_in.max_iterations,
                                        call_in.quality, call_in.threshold, call_in.ngaps))

CallUpdateStateWithSourceMetadata ==
    /\ pc = "call"
    /\ call_in.fn = "update_state_with_source_metadata"
    /\ Returns(update_state_with_source_metadata(call_in.sources, call_in.new_sources))

\* the gaps parsed twice from one text, each parse drawing its own token
CallParseGapsTwice ==
    /\ pc = "call"
    /\ call_in.fn = "parse_gaps"
    /\ \E first \in Uuids, second \in Uuids :
          Returns(<<ParseGaps(call_in.text, call_in.query, first),
                    ParseGaps(call_in.text, call_in.query, second)>>)

CallSearch ==
    /\ pc = "call"
    /\ call_in.fn = "search"
    /\ Returns(Search(call_in.engines, <<>>, call_in.query, call_in.max_results,
                       call_in.engine, call_in.out))

\* the scores parsed from an evaluator text, and the overall score read from them
CallParseQualityScores ==
    /\ pc = "call"
    /\ call_in.fn = "_parse_quality_scores"
    /\ LET scores == _parse_quality_scores(call_in.response)
       IN Returns([quality_scores |-> scores,
                   overall_quality |-> Get(scores, "OVERALL_QUALITY", DefaultScore)])

CallCalculateComponentFitness ==
    /\ pc = "call"
    /\ call_in.fn = "calculate_component_fitness"
    /\ Returns(calculate_component_fitness(call_in.search_results, call_in.gaps_addressed,
                                           call_in.quality_scores))

NextCalls ==
    \/ CallShouldContinueResearch
    \/ CallUpdateStateWithSourceMetadata
    \/ CallParseGapsTwice
    \/ CallSearch
    \/ CallParseQualityScores
    \/ CallCalculateComponentFitness

SpecCalls == InitCalls /\ [][NextCalls]_vars

Returned(fn) == pc = "returned" /\ call_in.fn = fn

----------------------------------------------------------------------------
(* One search call on a tool just built, one step per provider call and per  *)
(* settlement. call_out is the sequence of events so far, all_search_results *)
(* is search's all_results, search_results is what the call returns.         *)

ProviderInputs ==
    [fn : {"search"},
     engines : {engines, <<"duckduckgo", "tavily", "naver">>, <<"duckduckgo", "bing", "tavily">>},
     query : {"q1"},
     max_results : {2},
     engine : {None},
     out : ThreeOutcomes]

Event(ev, engine_name) == [ev |-> ev, engine |-> engine_name]

InitProviders ==
    /\ create_initial_state("Q1", 1, 85, "client")
    /\ pc = "search_loop"
    /\ self_engines = engines
    /\ cache = <<>>
    /\ gap_meta = <<>>
    /\ gap_idx = 0
    /\ all_search_results = <<>>
    /\ visits = [n \in Nodes |-> 0]
    /\ quality_seen = {}
    /\ call_in \in ProviderInputs
    /\ call_out = <<>>
    /\ files = NoFiles

\* engines_to_use = [engine] if engine else self.engines
EnginesToUse == IF call_in.engine \in {None, ""} THEN call_in.engines ELSE <<call_in.engine>>

\* the place of the loop "for engine_name in engines_to_use"
Position ==
    1 + Cardinality({i \in DOMAIN call_out : call_out[i].ev \in {"settle", "raise", "skip"}})

ProviderFrame ==
    UNCHANGED <<state_vars, tool_vars, gap_idx, visits, quality_seen, call_in, files>>

\* results = await self._search_<engine>(query, max_results), up to the await
ProviderCall ==
    /\ pc = "search_loop"
    /\ Position <= Len(EnginesToUse)
    /\ EnginesToUse[Position] \in KnownEngines
    /\ call_out' = Append(call_out, Event("start", EnginesToUse[Position]))
    /\ pc' = "search_await"
    /\ UNCHANGED all_search_results
    /\ ProviderFrame

\* else: continue
ProviderSkip ==
    /\ pc = "search_loop"
    /\ Position <= Len(EnginesToUse)
    /\ EnginesToUse[Position] \notin KnownEngines
    /\ call_out' = Append(call_out, Event("skip", EnginesToUse[Position]))
    /\ UNCHANGED <<pc, all_search_results>>
    /\ ProviderFrame

\* the awaited call settles: all_results.extend(results), or except: log
ProviderSettles ==
    /\ pc = "search_await"
    /\ LET engine_name == EnginesToUse[Position]
           outcome == call_in.out[engine_name]
       IN IF outcome.raises
          THEN /\ call_out' = Append(call_out, Event("raise", engine_name))
               /\ UNCHANGED all_search_results
          ELSE /\ call_out' = Append(call_out, Event("settle", engine_name))
               /\ all_search_results' =
                     all_search_results \o MakeResults(outcome.hits, engine_name, call_in.query,
                                                       Len(all_search_results))
    /\ pc' = "search_loop"
    /\ ProviderFrame

\* after the loop: cache, sort, return the capped slice
ProviderSearchReturns ==
    /\ pc = "search_loop"
    /\ Position > Len(EnginesToUse)
    /\ LET all_results == SortByScore(all_search_results)
           cache_key == CacheKey(call_in.engines, call_in.query, call_in.max_results,
                                 call_in.engine)
       IN /\ cache' = cache @@ (cache_key :> all_results)
          /\ all_search_results' = all_results
          /\ search_results' =
                SubSeq(all_results, 1,
                       Min(Len(all_results), call_in.max_results * Len(EnginesToUse)))
    /\ call_out' = Append(call_out, Event("return", ""))
    /\ pc' = "returned"
    /\ UNCHANGED <<client, query, max_iterations, quality_threshold, current_iteration,
                   research_complete, query_analysis, research_plan, current_draft,
                   previous_drafts, final_report, research_gaps, gap_analysis_text,
                   sources, quality_score, quality_scores, component_fitness>>
    /\ UNCHANGED <<self_engines, gap_meta, gap_idx, visits, quality_seen, call_in, files>>

NextProviders ==
    \/ ProviderCall
    \/ ProviderSkip
    \/ ProviderSettles
    \/ ProviderSearchReturns

SpecProviders == InitProviders /\ [][NextProviders]_vars

----------------------------------------------------------------------------
(* One search tool called several times: its cache lives as long as the tool. *)
(* call_out is the record of the calls made so far, each with what it got.    *)

ToolQueries == {"q", "q_1"}
ToolMaxResults == {1, 2}
ToolEngineArgs == {None, "tavily"}

\* a provider is handed max_results but is not bound by it
ToolOutcomes ==
    {("tavily" :> t) @@ ("duckduckgo" :> d) :
        t \in {Outcome(TRUE, <<>>),
               Outcome(FALSE, <<Hit("u1", 90)>>),
               Outcome(FALSE, <<Hit("u1", DuckDuckGoScore), Hit("u2", 90)>>),
               Outcome(FALSE, <<Hit("u1", DuckDuckGoScore), Hit("u2", DuckDuckGoScore),
                                Hit("u3", 90)>>)},
        d \in {Outcome(FALSE, <<>>), Outcome(FALSE, <<Hit("u4", DuckDuckGoScore)>>)}}

InitTool ==
    /\ create_initial_state("Q1", 1, 85, "client")
    /\ pc = "tool"
    /\ self_engines = engines
    /\ cache = <<>>
    /\ gap_meta = <<>>
    /\ gap_idx = 0
    /\ all_search_results = <<>>
    /\ visits = [n \in Nodes |-> 0]
    /\ quality_seen = {}
    /\ call_in = None
    /\ call_out = <<>>
    /\ files = NoFiles

\* await tool.search(q, max_results, engine); the record keeps the outcomes
\* of the providers the call reached, and nothing for the others
ToolSearch ==
    /\ pc = "tool"
    /\ Len(call_out) < MaxCalls
    /\ \E q \in ToolQueries, max_results \in ToolMaxResults, engine \in ToolEngineArgs,
          out \in ToolOutcomes :
          LET r == Search(self_engines, cache, q, max_results, engine, out)
              reached == {r.called[i] : i \in 1..Len(r.called)}
          IN /\ cache' = r.cache
             /\ call_out' = Append(call_out,
                                   [fn |-> "search", query |-> q,
                                    max_results |-> max_results, engine |-> engine,
                                    out |-> [e \in DOMAIN out |->
                                               IF e \in reached THEN out[e]
                                               ELSE Outcome(FALSE, <<>>)],
                                    results |-> r.results, called |-> r.called])
    /\ UNCHANGED <<pc, state_vars, self_engines, gap_meta, local_vars, visits,
                   quality_seen, call_in, files>>

\* tool.clear_cache()
ToolClearCache ==
    /\ pc = "tool"
    /\ Len(call_out) < MaxCalls
    /\ cache' = <<>>
    /\ call_out' = Append(call_out, [fn |-> "clear_cache"])
    /\ UNCHANGED <<pc, state_vars, self_engines, gap_meta, local_vars, visits,
                   quality_seen, call_in, files>>

NextTool ==
    \/ ToolSearch
    \/ ToolClearCache

SpecTool == InitTool /\ [][NextTool]_vars

----------------------------------------------------------------------------
(* run_batch_research: one run per query, interleaved. Each run builds its   *)
(* researcher, which builds its search tool, and then searches with it. Here *)
(* cache maps each tool object to its self.cache, and call_out gives each    *)
(* run's tool and the searches the run has made.                             *)

BatchQueries == <<"Q1", "Q1">>

Runs == DOMAIN BatchQueries

BatchOutcomes ==
    {("tavily" :> Outcome(FALSE, <<Hit("u1", 90)>>)) @@ ("duckduckgo" :> Outcome(FALSE, <<>>)),
     ("tavily" :> Outcome(TRUE, <<>>))
        @@ ("duckduckgo" :> Outcome(FALSE, <<Hit("u2", DuckDuckGoScore)>>))}

\* one tool object for all researchers
NewTool_shared(tools) == 1

\* WebSearchTool(...): a new object, with its own self.cache = {}
NewTool(tools) == Cardinality(DOMAIN tools) + 1

InitBatch ==
    /\ create_initial_state("Q1", 1, 85, "client")
    /\ pc = "batch"
    /\ self_engines = engines
    /\ cache = <<>>
    /\ gap_meta = <<>>
    /\ gap_idx = 0
    /\ all_search_results = <<>>
    /\ visits = [n \in Nodes |-> 0]
    /\ quality_seen = {}
    /\ call_in = [fn |-> "run_batch_research", queries |-> BatchQueries]
    /\ call_out = [r \in Runs |-> [search_tool |-> 0, calls |-> <<>>]]
    /\ files = NoFiles

BatchFrame ==
    UNCHANGED <<pc, state_vars, self_engines, gap_meta, local_vars, visits, quality_seen,
                call_in, files>>

\* TTDResearcher.__init__: self.search_tool = WebSearchTool(self.search_engines)
BatchBuildResearcher(r) ==
    /\ call_out[r].search_tool = 0
    /\ LET tool == NewTool(cache)
       IN /\ cache' = (tool :> <<>>) @@ cache
          /\ call_out' = [call_out EXCEPT ![r].search_tool = tool]
    /\ BatchFrame

\* a search of run r, made with the tool of its researcher
BatchSearch(r) ==
    /\ call_out[r].search_tool # 0
    /\ Len(call_out[r].calls) < MaxCalls
    /\ \E q \in ToolQueries, out \in BatchOutcomes :
          LET tool == call_out[r].search_tool
              res == Search(self_engines, cache[tool], q, SearchMaxResults, None, out)
          IN /\ cache' = [cache EXCEPT ![tool] = res.cache]
             /\ call_out' = [call_out EXCEPT ![r].calls =
                                Append(@, [query |-> q, called |-> res.called,
                                           results |-> res.results])]
    /\ BatchFrame

NextBatch ==
    \E r \in Runs :
        \/ BatchBuildResearcher(r)
        \/ BatchSearch(r)

SpecBatch == InitBatch /\ [][NextBatch]_vars

-----------------------------------------------------------------------------
(* run_batch_research as a whole: one run_research coroutine per query,      *)
(* gathered; each run ends with its result or with the exception it raises.  *)
(* call_out.tasks gives each run's progress, call_out.results what gather    *)
(* gives back, call_out.returned what the call returns.                      *)

MaxQueries == 3

GatherInputs ==
    [fn : {"run_batch_research"}, queries : SeqsUpTo({"Q1", "Q2"}, MaxQueries)]

\* what a run settles with: its result, or the exception it raised
Settled(r, q, failed) == [run |-> r, query |-> q, exception |-> failed]

\* asyncio.gather without the flag: the first exception is raised to the caller
ReturnExceptions_off == FALSE

\* asyncio.gather(*tasks, return_exceptions=True)
ReturnExceptions == TRUE

\* successful_results = [r for r in results if not isinstance(r, Exception)]
SuccessfulResults(results) == SelectSeq(results, LAMBDA x : ~x.exception)

InitGather ==
    /\ create_initial_state("Q1", 1, 85, "client")
    /\ pc = "gather"
    /\ self_engines = engines
    /\ cache = <<>>
    /\ gap_meta = <<>>
    /\ gap_idx = 0
    /\ all_search_results = <<>>
    /\ visits = [n \in Nodes |-> 0]
    /\ quality_seen = {}
    /\ call_in \in GatherInputs
    /\ call_out = [tasks |-> [r \in DOMAIN call_in.queries |-> "pending"],
                   results |-> <<>>, returned |-> <<>>]
    /\ files = NoFiles

GatherFrame ==
    UNCHANGED <<state_vars, tool_vars, local_vars, visits, quality_seen, call_in, files>>

\* the event loop starts run r: run_research down to "await researcher.run()"
TaskStarts(r) ==
    /\ pc = "gather"
    /\ call_out.tasks[r] = "pending"
    /\ call_out' = [call_out EXCEPT !.tasks[r] = "running"]
    /\ UNCHANGED pc
    /\ GatherFrame

\* run r ends: "return result"
TaskReturns(r) ==
    /\ call_out.tasks[r] = "running"
    /\ call_out' = [call_out EXCEPT !.tasks[r] = "done"]
    /\ UNCHANGED pc
    /\ GatherFrame

\* run r ends: "except Exception as e: ... raise". With return_exceptions the
\* exception is kept as the run's outcome; without it gather raises it to
\* run_batch_research at once, which has no handler, and the other runs go on
TaskRaises(r) ==
    /\ call_out.tasks[r] = "running"
    /\ call_out' = [call_out EXCEPT !.tasks[r] = "failed"]
    /\ pc' = IF ~ReturnExceptions /\ pc = "gather" THEN "raised" ELSE pc
    /\ GatherFrame

\* "results = await asyncio.gather(...)" resumes when every run has ended:
\* the outcomes in the order of the tasks
GatherSettles ==
    /\ pc = "gather"
    /\ \A r \in DOMAIN call_out.tasks : call_out.tasks[r] \in {"done", "failed"}
    /\ call_out' = [call_out EXCEPT !.results =
                       [r \in DOMAIN call_out.tasks |->
                           Settled(r, call_in.queries[r], call_out.tasks[r] = "failed")]]
    /\ pc' = "filter"
    /\ GatherFrame

\* the filter and "return successful_results"
BatchReturns ==
    /\ pc = "filter"
    /\ call_out' = [call_out EXCEPT !.returned = SuccessfulResults(call_out.results)]
    /\ pc' = "returned"
    /\ GatherFrame

NextGather ==
    \/ \E r \in DOMAIN call_out.tasks :
          \/ TaskStarts(r)
          \/ TaskReturns(r)
          \/ TaskRaises(r)
    \/ GatherSettles
    \/ BatchReturns

SpecGather == InitGather /\ [][NextGather]_vars

----------------------------------------------------------------------------
(* The claims *)

CycleNodes == {"analyze_gaps", "web_search", "enhance", "evaluate"}

\* a step in which the named node completes
Completes(node) == visits'[node] = visits[node] + 1

Over == {"finalize", "END", "aborted"}

\* C1: a run visits Evaluate at most max_iterations times, whatever the
\* evaluations, the gap analyses and the searches give.
C1_BoundedTermination == visits["evaluate"] <= max_iterations

\* C2: should_continue_research answers "finalize" exactly when
\* iteration >= max_iterations, or quality >= threshold, or there is no gap and
\* quality > 0.7; otherwise it answers "analyze_gaps".
C2_TerminationPolicy ==
    Returned("should_continue_research") =>
        /\ call_out \in {"finalize", "analyze_gaps"}
        /\ (call_out = "finalize") <=>
              \/ call_in.iteration >= call_in.max_iterations
              \/ call_in.quality >= call_in.threshold
              \/ call_in.ngaps = 0 /\ call_in.quality > 70

\* the third rule decides: below the bound, below the threshold, no gap, above 0.7
C2_Witness ==
    /\ Returned("should_continue_research")
    /\ call_in.iteration < call_in.max_iterations
    /\ call_in.quality < call_in.threshold
    /\ call_in.ngaps = 0
    /\ call_in.quality > 70
    /\ call_out = "finalize"

\* C3: when Evaluate completes with quality_score >= quality_threshold below
\* the iteration bound, the graph goes to Finalize, and from Finalize on it
\* never enters AnalyzeGaps again.
C3_ThresholdShortCircuit ==
    [][/\ (Completes("evaluate") /\ quality_score' >= quality_threshold
                                 /\ current_iteration < max_iterations)
             => pc' = "finalize"
       /\ pc \in Over => pc' \in Over]_vars

C3_Witness ==
    /\ pc = "finalize"
    /\ visits["evaluate"] >= 1
    /\ quality_score >= quality_threshold
    /\ current_iteration < max_iterations

\* Scenario B so far: max_iterations 3, threshold 0.85, every evaluation gave
\* 0.4 and every Enhance found search results.
ScenarioB ==
    /\ max_iterations = 3
    /\ quality_threshold = 85
    /\ quality_seen \subseteq {40}
    /\ Len(previous_drafts) = visits["enhance"]

\* C4, as claimed: in scenario B the run makes exactly 3 full cycles and then
\* finalizes through the iteration bound.
C4_ScenarioB_ThreeCycles ==
    (ScenarioB /\ pc \in {"finalize", "END"}) =>
        /\ \A n \in CycleNodes : visits[n] = 3
        /\ current_iteration >= max_iterations

\* C4, amended: in scenario B the run makes exactly 2 full cycles (the draft
\* counts as iteration 1) and then finalizes through the iteration bound, with
\* current_iteration = 3 and the quality below the threshold.
C4_ScenarioB_TwoCycles ==
    ScenarioB =>
        /\ \A n \in CycleNodes : visits[n] <= 2
        /\ pc \in {"finalize", "END"} =>
              /\ \A n \in CycleNodes : visits[n] = 2
              /\ current_iteration = 3
              /\ current_iteration >= max_iterations
              /\ quality_score < quality_threshold

C4_Witness == ScenarioB /\ pc = "END" /\ quality_seen = {40}

\* Scenario A so far: max_iterations 1, threshold 0.85, the evaluation gives 0.9.
ScenarioA ==
    /\ max_iterations = 1
    /\ quality_threshold = 85
    /\ quality_seen \subseteq {90}

\* C5: in scenario A the run makes exactly one pass Draft, AnalyzeGaps, Search,
\* Enhance, Evaluate, and goes from its one Evaluate to Finalize.
C5_ScenarioA ==
    ScenarioA =>
        /\ \A n \in Nodes \ {"finalize"} : visits[n] <= 1
        /\ visits["evaluate"] = 1 => pc \in Over
        /\ pc \in {"finalize", "END"} => \A n \in Nodes \ {"finalize"} : visits[n] = 1

C5_Witness == ScenarioA /\ pc = "END" /\ quality_score = 90

\* C6: 0 <= current_iteration <= max_iterations + 1 in every state of a run.
C6_IterationRange ==
    /\ 0 <= current_iteration
    /\ current_iteration <= max_iterations + 1

\* the upper end is reached
C6_Witness == current_iteration = max_iterations + 1

\* C7: every Enhance adds one to the iteration counter and appends the draft
\* it found to previous_drafts, whatever the Search gave.
C7_EnhanceAlwaysAdvances ==
    [][Completes("enhance") =>
          /\ current_iteration' = current_iteration + 1
          /\ previous_drafts' = Append(previous_drafts, current_draft)]_vars

NoDuplicateUrls(srcs) ==
    \A i, j \in 1..Len(srcs) : srcs[i].url = srcs[j].url => i = j

\* C8: state.sources never holds two records with the same URL.
C8_SourcesUniqueByUrl == NoDuplicateUrls(sources)

\* C9: update_state_with_source_metadata, given one record: a record whose URL
\* the sources hold leaves the sources as they were; a record whose URL they do
\* not hold is appended.
C9_DedupOnInsert ==
    (Returned("update_state_with_source_metadata") /\ Len(call_in.new_sources) = 1) =>
        LET record == call_in.new_sources[1]
        IN IF record.url \in Urls(call_in.sources)
           THEN call_out = call_in.sources
           ELSE call_out = Append(call_in.sources, record)

\* a record with a known URL and another title was offered
C9_Witness ==
    /\ Returned("update_state_with_source_metadata")
    /\ Len(call_in.new_sources) = 1
    /\ \E i \in 1..Len(call_in.sources) :
          /\ call_in.sources[i].url = call_in.new_sources[1].url
          /\ call_in.sources[i].title # call_in.new_sources[1].title

\* C10: research_complete is false until Finalize completes, only Finalize sets
\* it, and once it is true the run takes no further step.
C10_CompleteOnce ==
    /\ [](research_complete => pc = "END")
    /\ [][/\ ~research_complete
          /\ research_complete' => pc = "finalize"]_vars

C10_Witness == research_complete /\ pc = "END" /\ visits["finalize"] = 1

\* the text has no [SPECIFIC_GAPS] block, or its block matches no entry
Malformed(text) == ~text.block \/ text.entries = <<>>

\* C11: whenever AnalyzeGaps completes on a gap-analysis text without a
\* [SPECIFIC_GAPS] block, or with a block that matches no entry, it stores
\* exactly one gap: section "general", type "missing_information", priority
\* "medium", status "pending", search_query "comprehensive research " followed
\* by the run's query; and the run never aborts on a text it has received.
C11_GapFallback ==
    [][/\ (Completes("analyze_gaps") /\ Malformed(gap_analysis_text')) =>
             /\ Len(research_gaps') = 1
             /\ research_gaps'[1].section = "general"
             /\ research_gaps'[1].gap_type = "missing_information"
             /\ research_gaps'[1].priority = "medium"
             /\ research_gaps'[1].status = "pending"
             /\ research_gaps'[1].search_query = "comprehensive research " \o query
       /\ (pc = "analyze_gaps" /\ pc' = "aborted") =>
             gap_analysis_text' = gap_analysis_text]_vars

\* AnalyzeGaps has stored the fallback for a text whose block matches no entry
C11_Witness ==
    /\ visits["analyze_gaps"] >= 1
    /\ gap_analysis_text.block
    /\ gap_analysis_text.entries = <<>>
    /\ Len(research_gaps) = 1
    /\ research_gaps[1].section = "general"

\* C12, as claimed: parsing the same gap-analysis text twice gives the same gap
\* sequence, ids included, for every text, the fallback texts too.
C12_IdempotentReparse ==
    Returned("parse_gaps") => call_out[1] = call_out[2]

SameButIds(gaps, others) ==
    /\ Len(gaps) = Len(others)
    /\ \A i \in 1..Len(gaps) : [gaps[i] EXCEPT !.id = ""] = [others[i] EXCEPT !.id = ""]

\* C12, amended: parsing the same text twice gives the same gap sequence, ids
\* included, when the text's block matches an entry; when the fallback gap is
\* synthesized the two sequences agree in every field but the fallback's id.
C12_IdempotentButFallbackId ==
    Returned("parse_gaps") =>
        /\ SameButIds(call_out[1], call_out[2])
        /\ ~Malformed(call_in.text) => call_out[1] = call_out[2]

\* two parses of a text without a block gave fallback gaps with different ids
C12_Witness ==
    /\ Returned("parse_gaps")
    /\ Malformed(call_in.text)
    /\ call_out[1][1].id # call_out[2][1].id

\* the URLs of the records that carry the provider's tag, in the order returned
RECURSIVE UrlsFrom(_, _)
UrlsFrom(results, engine_name) ==
    IF results = <<>> THEN <<>>
    ELSE (IF Head(results).source = engine_name THEN <<Head(results).url>> ELSE <<>>)
         \o UrlsFrom(Tail(results), engine_name)

HitUrls(hits) == [i \in 1..Len(hits) |-> hits[i].url]

\* C13: in a search over several providers, a provider whose call raises
\* contributes no record, the call returns, and every record of every other
\* provider, before and after the failing one in provider order, is returned.
C13_FailureIsolation ==
    (Returned("search") /\ call_in.out \in ThreeOutcomes) =>
        \A i \in 1..Len(call_in.engines) :
            LET engine_name == call_in.engines[i]
                outcome == call_in.out[engine_name]
            IN UrlsFrom(call_out.results, engine_name) =
                  IF outcome.raises THEN <<>> ELSE HitUrls(outcome.hits)

\* the provider in the middle raised, the one before it and the one after it
\* each gave a record, and both records were returned
C13_Witness ==
    /\ Returned("search")
    /\ call_in.engines = <<"duckduckgo", "tavily", "naver">>
    /\ call_in.out["tavily"].raises
    /\ UrlsFrom(call_out.results, "duckduckgo") = <<"d1">>
    /\ UrlsFrom(call_out.results, "naver") = <<"n1">>
    /\ Len(call_out.results) = 2

\* the providers a recorded call was to use
ProvidersUsed(call) ==
    IF call.engine \in {None, ""} THEN self_engines ELSE <<call.engine>>

\* descending by score; equal scores in the order the records were collected
SortedStable(results) ==
    \A i, j \in 1..Len(results) :
        i < j => \/ results[i].score > results[j].score
                 \/ /\ results[i].score = results[j].score
                    /\ results[i].id[2] < results[j].id[2]

\* C14: every list search returns is sorted by score descending, equal scores
\* in provider order and then in insertion order, and is never longer than
\* max_results times the number of providers used, on a first call and on a
\* cache hit alike.
C14_MergeOrderAndCap ==
    pc = "tool" =>
        \A j \in 1..Len(call_out) :
            call_out[j].fn = "search" =>
                /\ SortedStable(call_out[j].results)
                /\ Len(call_out[j].results)
                      <= call_out[j].max_results * Len(ProvidersUsed(call_out[j]))

\* C15: merging two provider lists of five records each, two URLs occurring
\* in both, gives exactly eight records, their URLs pairwise distinct, sorted by
\* score descending.
C15_MergeDedup ==
    (Returned("search") /\ call_in.out \in FiveFiveOutcomes) =>
        /\ Len(call_out.results) = 8
        /\ NoDuplicateUrls(call_out.results)
        /\ \A i, j \in 1..Len(call_out.results) :
              i < j => call_out.results[i].score >= call_out.results[j].score

\* two recorded calls name the same query, max_results and provider set
SameCall(a, b) ==
    /\ a.query = b.query
    /\ a.max_results = b.max_results
    /\ {ProvidersUsed(a)[i] : i \in 1..Len(ProvidersUsed(a))}
          = {ProvidersUsed(b)[i] : i \in 1..Len(ProvidersUsed(b))}

\* the earlier calls that call j repeats, with no clear_cache in between
Priors(j) ==
    {i \in 1..(j - 1) :
        /\ call_out[i].fn = "search"
        /\ SameCall(call_out[i], call_out[j])
        /\ \A k \in (i + 1)..(j - 1) : call_out[k].fn # "clear_cache"}

\* the provider results of a recorded call, concatenated and sorted
Merged(call) ==
    SortByScore(CollectResults(ProvidersUsed(call), call.out, call.query, <<>>))

C17_GenerationFailureAborts ==
    /\ [](pc = "aborted" => ~research_complete /\ final_report = "")
    /\ [][/\ pc # "aborted"
          /\ (CallsGenerate /\ \A n \in Nodes : visits'[n] = visits[n])
                => pc' = "aborted"
          /\ pc' = "aborted"
                => CallsGenerate /\ UNCHANGED <<state_vars, tool_vars, visits>>]_vars

\* the generation call failed in the second cycle's AnalyzeGaps
C17_Witness ==
    /\ pc = "aborted"
    /\ visits["evaluate"] = 1
    /\ visits["analyze_gaps"] = 1
    /\ current_iteration = 2

\* C18: when every provider call fails or finds nothing and the text
\* generator always answers, the run eventually reaches Finalize, whatever the
\* evaluations give.
C18_ForwardProgress == <>(pc \in {"finalize", "END"})

\* C19: a run configured with max_iterations < 1 or with quality_threshold
\* outside [0, 1] fails before Clarify executes: no phase ever completes in it.
C19_ConfigValidated ==
    validate_state(max_iterations, quality_threshold) # <<>> =>
        /\ \A n \in Nodes : visits[n] = 0
        /\ pc \in {"clarify", "aborted"}

\* C20: run_research asked to save ends either with its result returned and
\* both the report file and the metadata file written, or with an error raised
\* and neither of them written.
C20_AtomicOutcome ==
    call_in.save_to_file =>
        /\ pc = "returned" => files.report /\ files.metadata
        /\ pc = "raised" => ~files.report /\ ~files.metadata

\* C21: in every reachable state the overall quality score that Evaluate has
\* stored lies in [0, 1], whatever number the evaluator text gives for
\* OVERALL_QUALITY.
C21_QualityClamped ==
    visits["evaluate"] >= 1 => quality_score >= 0 /\ quality_score <= 100

\* the lines of a text that carry the label
LinesOf(response, label) == {i \in DOMAIN response : response[i].key = label}

\* C22: for every evaluator text the parsed result is complete and holds
\* nothing else: each of the five sub-scores and the overall score is present,
\* a label missing from the text is 0.5, a label whose value is unparsable is
\* 0.5, the overall score is the one of OVERALL_QUALITY when the text gives it,
\* and a line with an unrecognized label adds no entry.
C22_ParseComplete ==
    Returned("_parse_quality_scores") =>
        LET response == call_in.response
            scores == call_out.quality_scores
        IN /\ DOMAIN scores = QualityLabels
           /\ \A label \in QualityLabels :
                 (\A i \in LinesOf(response, label) : ~response[i].float)
                     => scores[label] = DefaultScore
           /\ LinesOf(response, "OVERALL_QUALITY") = {}
                 => call_out.overall_quality = DefaultScore

\* the ids of the first n gaps
FirstIds(gaps, n) == [i \in 1..n |-> gaps[i].id]

\* C23: the fitness scores of the run state are recomputed in every cycle:
\* when Evaluate completes a cycle they equal what calculate_component_fitness
\* gives for the cycle's search results, its quality scores and some number of
\* its gaps taken as addressed.
C23_FitnessRecomputed ==
    [][Completes("evaluate") =>
          \E n \in 0..Len(research_gaps') :
              component_fitness' =
                  calculate_component_fitness(search_results', FirstIds(research_gaps', n),
                                              quality_scores')]_vars

\* C24: for every input calculate_component_fitness returns five values within
\* [0, 1], with search_strategy = min(1, 0.8 + 0.05 x |search results|),
\* gap_identification = min(1, 0.8 + 0.1 x |gaps addressed|), synthesis_quality =
\* enhancement_effectiveness = overall quality (0.7 when quality is absent) and
\* integration_ability = 0.4 x structure + 0.6 x accuracy.
C24_FitnessValues ==
    Returned("calculate_component_fitness") =>
        LET fitness == call_out
            scores == call_in.quality_scores
            overall == Get(scores, "overall_quality", FitnessFallback)
        IN /\ \A k \in DOMAIN fitness : fitness[k] >= 0 /\ fitness[k] <= 100
           /\ fitness.search_strategy = Min(100, 80 + 5 * Len(call_in.search_results))
           /\ fitness.gap_identification = Min(100, 80 + 10 * Len(call_in.gaps_addressed))
           /\ fitness.synthesis_quality = overall
           /\ fitness.enhancement_effectiveness = overall
           /\ 100 * fitness.integration_ability =
                  40 * Get(scores, "structure", FitnessFallback)
                  + 60 * Get(scores, "accuracy", FitnessFallback)

\* C25: fitness is diagnostic only: replacing the component_fitness values of
\* any state of a run by other values changes nothing in the phases the run
\* can take next, Evaluate's decision among them, nor in the values the
\* routing reads after that step (iteration, overall quality, number of gaps).
C25_FitnessDiagnosticOnly ==
    call_in.fn = "replaced" => RoutingNext = call_out

\* the fitness scores were replaced where Evaluate decides, and Evaluate can
\* both go on and finalize from there
C25_Witness ==
    /\ call_in.fn = "replaced"
    /\ pc = "evaluate"
    /\ current_iteration < max_iterations
    /\ call_out.phase = {"analyze_gaps", "finalize", "aborted"}

\* the engines whose call has been started
Started == {call_out[i].engine : i \in {j \in DOMAIN call_out : call_out[j].ev = "start"}}

\* the known engines the loop has not reached yet, the awaited one left out
Waiting ==
    {EnginesToUse[i] : i \in {j \in (Position + 1)..Len(EnginesToUse) :
                                  EnginesToUse[j] \in KnownEngines}}

\* C26: within one search call the provider calls run concurrently: while one
\* provider's call is awaited and another provider is still to be called, that
\* call can start; and a provider's failure cancels no sibling: when the
\* search returns, every configured provider's call was started.
C26_ProvidersConcurrent ==
    /\ (pc = "search_await" /\ Waiting # {}) => ENABLED ProviderCall
    /\ pc = "returned" =>
          \A i \in DOMAIN EnginesToUse :
              EnginesToUse[i] \in KnownEngines => EnginesToUse[i] \in Started

\* the same call as Search computes it, and no sibling cancelled (holds)
ProvidersAgreeWithSearch ==
    pc = "returned" =>
        LET r == Search(call_in.engines, <<>>, call_in.query, call_in.max_results,
                        call_in.engine, call_in.out)
        IN /\ search_results = r.results
           /\ cache = r.cache
           /\ \A i \in DOMAIN EnginesToUse :
                 EnginesToUse[i] \in KnownEngines => EnginesToUse[i] \in Started

\* result records as a reader of the state sees them: each with the gap_id and
\* gap_section last written into its object
Tagged(results) ==
    [i \in DOMAIN results |->
        IF results[i].id \in DOMAIN gap_meta
        THEN [record |-> results[i], gap_id |-> gap_meta[results[i].id].gap_id,
              gap_section |-> gap_meta[results[i].id].gap_section]
        ELSE [record |-> results[i], gap_id |-> None, gap_section |-> None]]

\* the loop of WebSearchNode.process is between two gaps
SearchInProgress == pc = "web_search" /\ gap_idx >= 1

\* C27: no partial merge is visible: state.search_results, read with what its
\* records carry, changes only in the step that ends a Search phase, after the
\* searches of all gaps of the pass have settled, so once per phase; and while
\* a Search phase is in progress no other phase runs.
C27_NoPartialMerge ==
    [][/\ Tagged(search_results)' # Tagged(search_results) =>
             /\ Completes("web_search")
             /\ gap_idx = Len(research_gaps) + 1
       /\ SearchInProgress =>
             /\ pc' \in {"web_search", "enhance"}
             /\ \A n \in Nodes \ {"web_search"} : visits'[n] = visits[n]]_vars

\* the same, for the list alone, whatever its records carry
SearchResultsListWrittenOnce ==
    [][search_results' # search_results =>
          Completes("web_search") /\ gap_idx = Len(research_gaps) + 1]_vars

\* C28: an abort leaves the last completed phase intact: in the step in which
\* a phase's text-generation call fails, the draft, the draft history, the
\* sources and search results with what their records carry, the gaps, the
\* iteration, the quality and the completion flag all keep the values they had
\* at the end of the previous phase.
C28_AbortLeavesStateIntact ==
    [][pc' = "aborted" =>
          /\ current_draft' = current_draft
          /\ previous_drafts' = previous_drafts
          /\ Tagged(sources)' = Tagged(sources)
          /\ Tagged(search_results)' = Tagged(search_results)
          /\ research_gaps' = research_gaps
          /\ gap_analysis_text' = gap_analysis_text
          /\ current_iteration' = current_iteration
          /\ quality_score' = quality_score
          /\ quality_scores' = quality_scores
          /\ research_complete' = research_complete
          /\ final_report' = final_report]_vars

\* the generation call of an Enhance that had search results failed, after a
\* first cycle had enhanced the draft and stored sources
C28_Witness ==
    /\ pc = "aborted"
    /\ visits["enhance"] = 1
    /\ visits["web_search"] = 2
    /\ visits["evaluate"] = 1
    /\ search_results # <<>>
    /\ sources # <<>>
    /\ Len(previous_drafts) = 1

\* C29: the search cache is scoped to one run: two runs started by
\* run_batch_research never hold the same tool, hence never the same cache,
\* and a search of a run is served from the cache only when an earlier search
\* of the same run asked the same query.
C29_CachePerRun ==
    /\ \A r1, r2 \in Runs :
          (r1 # r2 /\ call_out[r1].search_tool # 0 /\ call_out[r2].search_tool # 0)
              => call_out[r1].search_tool # call_out[r2].search_tool
    /\ \A r \in Runs : \A i \in DOMAIN call_out[r].calls :
          call_out[r].calls[i].called = <<>> =>
              \E j \in 1..(i - 1) : call_out[r].calls[j].query = call_out[r].calls[i].query

\* both runs have searched the same query and each had to call the providers,
\* and each tool's cache now holds the query
C29_Witness ==
    /\ \A r \in Runs :
          /\ call_out[r].search_tool # 0
          /\ Len(call_out[r].calls) = 1
          /\ call_out[r].calls[1].query = "q"
          /\ call_out[r].calls[1].called = engines
          /\ DOMAIN cache[call_out[r].search_tool] # {}

\* C30: every run executes Clarify, Plan and Draft once each and in that
\* order, all three before the first AnalyzeGaps and none of them again; Draft
\* sets the iteration counter to 1, and from then on the counter never
\* decreases and is never reset.
C30_PreludeOnceThenMonotone ==
    /\ [](/\ visits["clarify"] <= 1
          /\ visits["plan"] <= visits["clarify"]
          /\ visits["generate_draft"] <= visits["plan"]
          /\ visits["analyze_gaps"] >= 1 => visits["generate_draft"] = 1
          /\ pc \in {"clarify", "plan", "generate_draft"} => visits[pc] = 0
          /\ visits["generate_draft"] = 1 => current_iteration >= 1)
    /\ [][/\ Completes("generate_draft") => current_iteration' = 1
          /\ visits["generate_draft"] = 1 => current_iteration' >= current_iteration]_vars

\* a run in its second cycle: the three opening phases ran once, AnalyzeGaps
\* twice, and the counter has moved on from the 1 that Draft gave it
C30_Witness ==
    /\ visits["clarify"] = 1
    /\ visits["plan"] = 1
    /\ visits["generate_draft"] = 1
    /\ visits["analyze_gaps"] = 2
    /\ current_iteration = 2
    /\ pc = "web_search"

\* C31: after AnalyzeGaps the next phase is Search exactly when the gap list is
\* non-empty and Evaluate exactly when it is empty (the edge function gives
\* Evaluate for the empty list); after Search the next phase is always Enhance
\* and after Enhance always Evaluate.
C31_LoopRouting ==
    [][/\ Completes("analyze_gaps") =>
             /\ research_gaps' # <<>> <=> pc' = "web_search"
             /\ research_gaps' = <<>> <=> pc' = "evaluate"
       /\ should_search_gaps(<<>>) = "evaluate"
       /\ Completes("web_search") => pc' = "enhance"
       /\ Completes("enhance") => pc' = "evaluate"]_vars

\* a cycle went AnalyzeGaps, Search, Enhance and has arrived at Evaluate
C31_Witness ==
    /\ pc = "evaluate"
    /\ research_gaps # <<>>
    /\ visits["analyze_gaps"] = 1
    /\ visits["web_search"] = 1
    /\ visits["enhance"] = 1
    /\ visits["evaluate"] = 0

\* the ids of the gaps of a list
GapIds(gaps) == {gaps[i].id : i \in DOMAIN gaps}

\* C32: each AnalyzeGaps pass replaces the gap list wholesale: after the pass
\* the list is exactly what parse_gap_analysis extracts from this pass's text,
\* or the one fallback gap when it extracts nothing, and holds nothing else,
\* whatever the list held before.
C32_GapsReplaced ==
    [][Completes("analyze_gaps") =>
          LET extracted == parse_gap_analysis(gap_analysis_text')
          IN IF extracted # <<>>
             THEN research_gaps' = extracted
             ELSE \E uuid8 \in Uuids :
                     research_gaps' = create_fallback_gap(query, uuid8)]_vars

\* after the second pass the list holds one gap, and the gap an earlier pass
\* searched for (its id is written in a result) is not in it
C32_Witness ==
    /\ visits["analyze_gaps"] = 2
    /\ Len(research_gaps) = 1
    /\ \E x \in DOMAIN gap_meta : gap_meta[x].gap_id \notin GapIds(research_gaps)

\* C33: within the gap list that one AnalyzeGaps pass produces the gap ids are
\* pairwise distinct, for every gap-analysis text.
C33_GapIdsDistinct ==
    Returned("parse_gaps") =>
        LET gaps == call_out[1]
        IN \A i, j \in DOMAIN gaps : gaps[i].id = gaps[j].id => i = j

\* s is a prefix of t
IsPrefix(s, t) == Len(s) <= Len(t) /\ SubSeq(t, 1, Len(s)) = s

C35_GapsNeverEmpty ==
    /\ [](visits["analyze_gaps"] >= 1 => research_gaps # <<>>)
    /\ [][/\ Completes("analyze_gaps") => pc' # "evaluate"
          /\ (Completes("evaluate") /\ pc' = "finalize") =>
                \/ current_iteration >= max_iterations
                \/ quality_score' >= quality_threshold]_vars

\* Evaluate stored a quality above 0.7 and below the threshold before the
\* iteration bound, and went back to AnalyzeGaps
C35_Witness ==
    /\ pc = "analyze_gaps"
    /\ visits["evaluate"] = 1
    /\ quality_score > ImprovementFloor
    /\ quality_score < quality_threshold
    /\ current_iteration < max_iterations

\* C36: in every state after the Draft phase current_iteration is
\* 1 + len(previous_drafts): the counter and the draft history advance
\* together, and neither advances in an Enhance that received no search results.
C36_CounterMatchesHistory ==
    /\ [](visits["generate_draft"] >= 1 => current_iteration = 1 + Len(previous_drafts))
    /\ [][(Completes("enhance") /\ search_results = <<>>) =>
             UNCHANGED <<current_iteration, previous_drafts>>]_vars

\* a first Enhance advanced both, a second one received no search results and
\* advanced neither
C36_Witness ==
    /\ pc = "evaluate"
    /\ visits["enhance"] = 2
    /\ search_results = <<>>
    /\ current_iteration = 2
    /\ Len(previous_drafts) = 1

\* C37: the state run() hands to the workflow carries the client and the search
\* tool the constructor built, and the Clarify phase's generation call has a
\* client to reach
C37_StateCarriesClientAndTool ==
    pc \in {"ainvoke"} \cup Nodes =>
        /\ client = call_in.client
        /\ call_out.search_tool = call_in.search_tool
        /\ (pc = "clarify" => ENABLED ClarificationNode)

\* C38: after a Search phase every record of search_results carries the gap_id
\* and gap_section of a gap of the pass whose search_query retrieved it, every
\* gap whose query retrieved records has records carrying its id, and the
\* records are separate objects, one per retrieving gap, also when a later gap
\* of the pass has the same search_query and is served from the cache
C38_TaggedPerRetrievingGap ==
    (pc = "enhance" /\ visits["web_search"] >= 1) =>
        LET T == Tagged(search_results)
            retrieved(q) == \E i \in DOMAIN search_results : search_results[i].id[1] = q
        IN /\ \A i \in DOMAIN T :
                 \E k \in DOMAIN research_gaps :
                    /\ research_gaps[k].id = T[i].gap_id
                    /\ research_gaps[k].section = T[i].gap_section
                    /\ research_gaps[k].search_query = search_results[i].id[1]
           /\ \A k \in DOMAIN research_gaps :
                 (research_gaps[k].search_query # "" /\ retrieved(research_gaps[k].search_query))
                    => \E i \in DOMAIN T : T[i].gap_id = research_gaps[k].id
           /\ \A i, j \in DOMAIN search_results :
                 i # j => search_results[i].id # search_results[j].id

\* C39: update_state_with_source_metadata keeps the URLs distinct: called on
\* sources with pairwise distinct URLs it returns sources with pairwise distinct
\* URLs, whatever new_sources holds, a new URL given more than once included
C39_UpdateKeepsUrlsDistinct ==
    (Returned("update_state_with_source_metadata") /\ NoDuplicateUrls(call_in.sources)) =>
        NoDuplicateUrls(call_out)

\* the results of the runs that succeeded, in the order of their queries
ExpectedBatch ==
    LET n == Len(call_in.queries)
        ok == {r \in 1..n : call_out.tasks[r] = "done"}
        place(r) == Cardinality({x \in ok : x <= r})
    IN [i \in 1..Cardinality(ok) |->
          LET r == CHOOSE x \in ok : place(x) = i
          IN [run |-> r, query |-> call_in.queries[r], exception |-> FALSE]]

\* C40: the runs of run_batch_research are isolated: the step in which a run
\* fails changes no other run, a run in progress can still end with its result
\* whatever the others did, the call does not raise, and what it returns is
\* exactly the results of the runs that succeeded, in the order of their queries.
C40_BatchIsolation ==
    /\ [][\A r \in DOMAIN call_out.tasks :
             (call_out.tasks[r] # "failed" /\ call_out'.tasks[r] = "failed") =>
                \A x \in DOMAIN call_out.tasks \ {r} :
                   call_out'.tasks[x] = call_out.tasks[x]]_vars
    /\ [](\A r \in DOMAIN call_out.tasks :
             call_out.tasks[r] = "running" => ENABLED TaskReturns(r))
    /\ [](pc # "raised")
    /\ [](pc = "returned" => call_out.returned = ExpectedBatch)

\* a batch of three returned: the first run succeeded, the second failed, the
\* third succeeded after that
C40_Witness ==
    /\ pc = "returned"
    /\ Len(call_in.queries) = 3
    /\ call_out.tasks = <<"done", "failed", "done">>
    /\ Len(call_out.returned) = 2
    /\ call_out.returned[2].run = 3

====
